---- MODULE Spec2Model ----
(***************************************************************************)
(* Transaction value types and the dual-format (legacy / witness-extended) *)
(* codec of primitives/transaction.h, as a state machine over a builder    *)
(* (CMutableTransaction), frozen transactions (CTransaction) and a byte    *)
(* stream.                                                                 *)
(*                                                                         *)
(* Representation of the fixed-width integers: a 32-bit field is held as   *)
(* the integer in -2^31 .. 2^31-1 with the same bit pattern (0xFFFFFFFF is *)
(* -1, as in the source's "(uint32_t) -1"); a 64-bit amount is held as its *)
(* two 32-bit halves [lo, hi]; a uint256 is held as its 32 bytes.          *)
(***************************************************************************)
EXTENDS Integers, Sequences, FiniteSets, TLC

VARIABLES mtx, txs, ss, out

vars == <<mtx, txs, ss, out>>

(* ------------------------------ bounds -------------------------------- *)

\* inputs / outputs of a transaction drawn in the codec specification
MaxVin == 2
MaxVout == 1
\* inputs / outputs the builder of the lifecycle specification may hold
MaxEditVin == 1
MaxEditVout == 1
\* frozen transactions kept alive at once
MaxTxs == 2

(* --------------------------- program constants ------------------------ *)

SEQUENCE_FINAL == -1
CURRENT_VERSION == 2
NULL_N == -1

(* ------------------- primitive encodings (serialize.h) ---------------- *)

Take(s, n) == SubSeq(s, 1, n)

Drop(s, n) == SubSeq(s, n + 1, Len(s))

\* result of a stream read: the value, and the rest of the stream
Ok(v, rest) == [ok |-> TRUE, val |-> v, rest |-> rest]

\* the stream ended inside the read (the stream's own failure)
Eof(v) == [ok |-> FALSE, val |-> v, rest |-> <<>>]

WriteLE32(x) ==
  << x % 256, (x \div 256) % 256, (x \div 65536) % 256, (x \div 16777216) % 256 >>

ReadLE32(s) ==
  IF Len(s) < 4 THEN Eof(0)
  ELSE Ok(s[1] + 256 * s[2] + 65536 * s[3]
            + 16777216 * (IF s[4] >= 128 THEN s[4] - 256 ELSE s[4]),
          Drop(s, 4))

WriteLE64(a) == WriteLE32(a.lo) \o WriteLE32(a.hi)

ReadLE64(s) ==
  IF Len(s) < 8 THEN Eof([lo |-> 0, hi |-> 0])
  ELSE Ok([lo |-> ReadLE32(s).val, hi |-> ReadLE32(Drop(s, 4)).val], Drop(s, 8))

\* Counts of 253 and more take the multi-byte forms; no stream of the model
\* is that long, so a first byte >= 253 always ends in the stream's failure.
WriteCompactSize(n) ==
  IF n < 253 THEN <<n>> ELSE <<253, n % 256, n \div 256>>

ReadCompactSize(s) ==
  IF s = <<>> THEN Eof(0)
  ELSE IF s[1] >= 253 THEN Eof(0)
  ELSE Ok(s[1], Tail(s))

\* a byte vector (CScript, a witness item): length prefix, then the bytes
WriteBytes(b) == WriteCompactSize(Len(b)) \o b

ReadBytes(s) ==
  LET c == ReadCompactSize(s)
  IN IF ~c.ok THEN Eof(<<>>)
     ELSE IF Len(c.rest) < c.val THEN Eof(<<>>)
     ELSE Ok(Take(c.rest, c.val), Drop(c.rest, c.val))

(* ----------------------------- value types ---------------------------- *)

\* uint256 whose last byte is b, the other 31 bytes zero
Uint256(b) == [i \in 1..32 |-> IF i = 32 THEN b ELSE 0]

COutPoint(hashIn, nIn) == [hash |-> hashIn, n |-> nIn]

COutPointNull == [hash |-> Uint256(0), n |-> NULL_N]

OutPointIsNull(p) == p.hash = Uint256(0) /\ p.n = NULL_N

SerOutPoint(p) == p.hash \o WriteLE32(p.n)

ReadOutPoint(s) ==
  IF Len(s) < 36 THEN Eof(COutPointNull)
  ELSE Ok(COutPoint(Take(s, 32), ReadLE32(Drop(s, 32)).val), Drop(s, 36))

CTxIn(prevoutIn, scriptSigIn, nSequenceIn) ==
  [prevout |-> prevoutIn, scriptSig |-> scriptSigIn, nSequence |-> nSequenceIn,
   scriptWitness |-> <<>>]

CTxInDefault == CTxIn(COutPointNull, <<>>, SEQUENCE_FINAL)

\* CTxIn::SerializationOp: prevout, scriptSig, nSequence (no witness)
SerTxIn(in) ==
  SerOutPoint(in.prevout) \o WriteBytes(in.scriptSig) \o WriteLE32(in.nSequence)

ReadTxIn(s) ==
  LET p == ReadOutPoint(s)
      c == ReadBytes(p.rest)
      q == ReadLE32(c.rest)
  IN IF p.ok /\ c.ok /\ q.ok THEN Ok(CTxIn(p.val, c.val, q.val), q.rest)
     ELSE Eof(CTxInDefault)

CTxOut(nValueIn, scriptPubKeyIn) == [nValue |-> nValueIn, scriptPubKey |-> scriptPubKeyIn]

SerTxOut(o) == WriteLE64(o.nValue) \o WriteBytes(o.scriptPubKey)

ReadTxOut(s) ==
  LET a == ReadLE64(s)
      c == ReadBytes(a.rest)
  IN IF a.ok /\ c.ok THEN Ok(CTxOut(a.val, c.val), c.rest)
     ELSE Eof(CTxOut([lo |-> -1, hi |-> -1], <<>>))

(* ------------------------ vectors (serialize.h) ----------------------- *)

RECURSIVE SerTxIns(_)
SerTxIns(v) == IF v = <<>> THEN <<>> ELSE SerTxIn(Head(v)) \o SerTxIns(Tail(v))

SerVin(v) == WriteCompactSize(Len(v)) \o SerTxIns(v)

RECURSIVE ReadTxIns(_, _)
ReadTxIns(s, n) ==
  IF n = 0 THEN Ok(<<>>, s)
  ELSE LET e == ReadTxIn(s)
       IN IF ~e.ok THEN Eof(<<>>)
          ELSE LET r == ReadTxIns(e.rest, n - 1)
               IN [ok |-> r.ok, val |-> <<e.val>> \o r.val, rest |-> r.rest]

ReadVin(s) ==
  LET c == ReadCompactSize(s)
  IN IF ~c.ok THEN Eof(<<>>) ELSE ReadTxIns(c.rest, c.val)

RECURSIVE SerTxOuts(_)
SerTxOuts(v) == IF v = <<>> THEN <<>> ELSE SerTxOut(Head(v)) \o SerTxOuts(Tail(v))

SerVout(v) == WriteCompactSize(Len(v)) \o SerTxOuts(v)

RECURSIVE ReadTxOuts(_, _)
ReadTxOuts(s, n) ==
  IF n = 0 THEN Ok(<<>>, s)
  ELSE LET e == ReadTxOut(s)
       IN IF ~e.ok THEN Eof(<<>>)
          ELSE LET r == ReadTxOuts(e.rest, n - 1)
               IN [ok |-> r.ok, val |-> <<e.val>> \o r.val, rest |-> r.rest]

ReadVout(s) ==
  LET c == ReadCompactSize(s)
  IN IF ~c.ok THEN Eof(<<>>) ELSE ReadTxOuts(c.rest, c.val)

\* a witness stack: length-prefixed sequence of length-prefixed byte strings
RECURSIVE SerItems(_)
SerItems(st) == IF st = <<>> THEN <<>> ELSE WriteBytes(Head(st)) \o SerItems(Tail(st))

SerStack(st) == WriteCompactSize(Len(st)) \o SerItems(st)

RECURSIVE ReadItems(_, _)
ReadItems(s, n) ==
  IF n = 0 THEN Ok(<<>>, s)
  ELSE LET e == ReadBytes(s)
       IN IF ~e.ok THEN Eof(<<>>)
          ELSE LET r == ReadItems(e.rest, n - 1)
               IN [ok |-> r.ok, val |-> <<e.val>> \o r.val, rest |-> r.rest]

ReadStack(s) ==
  LET c == ReadCompactSize(s)
  IN IF ~c.ok THEN Eof(<<>>) ELSE ReadItems(c.rest, c.val)

(* ------------------------ transaction codec --------------------------- *)

CMutableTransaction(vinIn, voutIn, nVersionIn, nLockTimeIn) ==
  [vin |-> vinIn, vout |-> voutIn, nVersion |-> nVersionIn, nLockTime |-> nLockTimeIn]

\* CMutableTransaction() (transaction.cpp): nVersion(CURRENT_VERSION), nLockTime(0)
CMutableTransactionDefault == CMutableTransaction(<<>>, <<>>, CURRENT_VERSION, 0)

\* the four serialized fields of a CTransaction or of a CMutableTransaction
Fields(tx) == CMutableTransaction(tx.vin, tx.vout, tx.nVersion, tx.nLockTime)

\* mutant: any input counts as carrying a witness
HasWitnessAnyInput(tx) == Len(tx.vin) > 0

\* CScriptWitness::IsNull() is stack.empty()
HasWitness(tx) == \E i \in 1..Len(tx.vin) : tx.vin[i].scriptWitness # <<>>

NoError == "ok"
EndOfData == "end of data"
UnknownOptionalData == "Unknown transaction optional data"

RECURSIVE Flatten(_)
Flatten(fs) == IF fs = <<>> THEN <<>> ELSE Head(fs).b \o Flatten(Tail(fs))

Labels(fs) == [i \in 1..Len(fs) |-> fs[i].f]

\* mutant: the witness stacks are written whether or not the stream allows them
SerializeTransactionWritesAlwaysWitness(tx, fAllowWitness) ==
  LET flags == IF HasWitness(tx) THEN 1 ELSE 0
  IN <<[f |-> "nVersion", b |-> WriteLE32(tx.nVersion)]>>
     \o (IF flags # 0
         THEN <<[f |-> "vinDummy", b |-> SerVin(<<>>)], [f |-> "flags", b |-> <<flags>>]>>
         ELSE <<>>)
     \o <<[f |-> "vin", b |-> SerVin(tx.vin)], [f |-> "vout", b |-> SerVout(tx.vout)]>>
     \o (IF flags % 2 = 1
         THEN [i \in 1..Len(tx.vin) |->
                 [f |-> "scriptWitness", b |-> SerStack(tx.vin[i].scriptWitness)]]
         ELSE <<>>)
     \o <<[f |-> "nLockTime", b |-> WriteLE32(tx.nLockTime)]>>

\* mutant: only the inputs that have a witness get their stack written
SerializeTransactionWritesSkipEmpty(tx, fAllowWitness) ==
  LET flags == IF fAllowWitness /\ HasWitness(tx) THEN 1 ELSE 0
      withStack == SelectSeq(tx.vin, LAMBDA in : in.scriptWitness # <<>>)
  IN <<[f |-> "nVersion", b |-> WriteLE32(tx.nVersion)]>>
     \o (IF flags # 0
         THEN <<[f |-> "vinDummy", b |-> SerVin(<<>>)], [f |-> "flags", b |-> <<flags>>]>>
         ELSE <<>>)
     \o <<[f |-> "vin", b |-> SerVin(tx.vin)], [f |-> "vout", b |-> SerVout(tx.vout)]>>
     \o (IF flags % 2 = 1
         THEN [i \in 1..Len(withStack) |->
                 [f |-> "scriptWitness", b |-> SerStack(withStack[i].scriptWitness)]]
         ELSE <<>>)
     \o <<[f |-> "nLockTime", b |-> WriteLE32(tx.nLockTime)]>>

\* SerializeTransaction as the sequence of its writes, each with its label
SerializeTransactionWrites(tx, fAllowWitness) ==
  LET flags == IF fAllowWitness /\ HasWitness(tx) THEN 1 ELSE 0
  IN <<[f |-> "nVersion", b |-> WriteLE32(tx.nVersion)]>>
     \o (IF flags # 0
         THEN <<[f |-> "vinDummy", b |-> SerVin(<<>>)], [f |-> "flags", b |-> <<flags>>]>>
         ELSE <<>>)
     \o <<[f |-> "vin", b |-> SerVin(tx.vin)], [f |-> "vout", b |-> SerVout(tx.vout)]>>
     \o (IF flags % 2 = 1
         THEN [i \in 1..Len(tx.vin) |->
                 [f |-> "scriptWitness", b |-> SerStack(tx.vin[i].scriptWitness)]]
         ELSE <<>>)
     \o <<[f |-> "nLockTime", b |-> WriteLE32(tx.nLockTime)]>>

SerializeTransaction(tx, fAllowWitness) ==
  Flatten(SerializeTransactionWrites(tx, fAllowWitness))

\* A parse in progress: the object being filled, the stream left, the flags
\* local, the flags byte as it was read (-1: none read), the outcome so far
\* and the reads started (a read that fails is the last of them).
ParseStart(tx, s) ==
  [tx |-> tx, s |-> s, flags |-> 0, flagsRead |-> -1, err |-> NoError, trace |-> <<>>]

\* line 244: s >> tx.nVersion
RdVersion(p) ==
  IF p.err # NoError THEN p
  ELSE LET r == ReadLE32(p.s)
       IN IF r.ok THEN [p EXCEPT !.tx.nVersion = r.val, !.s = r.rest,
                                 !.trace = Append(@, "nVersion")]
          ELSE [p EXCEPT !.err = EndOfData, !.trace = Append(@, "nVersion")]

\* lines 246-247: tx.vin.clear(); tx.vout.clear()
ClearVectors(p) ==
  IF p.err # NoError THEN p ELSE [p EXCEPT !.tx.vin = <<>>, !.tx.vout = <<>>]

\* lines 249, 254: s >> tx.vin
RdVin(p) ==
  IF p.err # NoError THEN p
  ELSE LET r == ReadVin(p.s)
       IN IF r.ok THEN [p EXCEPT !.tx.vin = r.val, !.s = r.rest,
                                 !.trace = Append(@, "vin")]
          ELSE [p EXCEPT !.tx.vin = r.val, !.err = EndOfData,
                         !.trace = Append(@, "vin")]

\* lines 255, 259: s >> tx.vout
RdVout(p) ==
  IF p.err # NoError THEN p
  ELSE LET r == ReadVout(p.s)
       IN IF r.ok THEN [p EXCEPT !.tx.vout = r.val, !.s = r.rest,
                                 !.trace = Append(@, "vout")]
          ELSE [p EXCEPT !.tx.vout = r.val, !.err = EndOfData,
                         !.trace = Append(@, "vout")]

\* line 252: s >> flags
RdFlags(p) ==
  IF p.err # NoError THEN p
  ELSE IF p.s = <<>> THEN [p EXCEPT !.err = EndOfData, !.trace = Append(@, "flags")]
  ELSE [p EXCEPT !.flags = p.s[1], !.flagsRead = p.s[1], !.s = Tail(p.s),
                 !.trace = Append(@, "flags")]

\* lines 264-266: for each input from the i-th on, s >> tx.vin[i].scriptWitness.stack
RECURSIVE RdWitnesses(_, _)
RdWitnesses(p, i) ==
  IF p.err # NoError \/ i > Len(p.tx.vin) THEN p
  ELSE LET r == ReadStack(p.s)
       IN IF r.ok
          THEN RdWitnesses([p EXCEPT !.tx.vin[i].scriptWitness = r.val, !.s = r.rest,
                                     !.trace = Append(@, "scriptWitness")], i + 1)
          ELSE [p EXCEPT !.tx.vin[i].scriptWitness = r.val, !.err = EndOfData,
                         !.trace = Append(@, "scriptWitness")]

\* line 272: s >> tx.nLockTime
RdLockTime(p) ==
  IF p.err # NoError THEN p
  ELSE LET r == ReadLE32(p.s)
       IN IF r.ok THEN [p EXCEPT !.tx.nLockTime = r.val, !.s = r.rest,
                                 !.trace = Append(@, "nLockTime")]
          ELSE [p EXCEPT !.err = EndOfData, !.trace = Append(@, "nLockTime")]

\* mutant: the output list is read after a zero flags byte too
RdBodyAlwaysVout(p, fAllowWitness) ==
  IF p.err # NoError THEN p
  ELSE IF Len(p.tx.vin) = 0 /\ fAllowWitness
       THEN LET q == RdFlags(p)
            IN IF q.err = NoError /\ q.flags # 0 THEN RdVout(RdVin(q)) ELSE RdVout(q)
       ELSE RdVout(p)

\* lines 250-260: the dummy / flags / vout decision
RdBody(p, fAllowWitness) ==
  IF p.err # NoError THEN p
  ELSE IF Len(p.tx.vin) = 0 /\ fAllowWitness
       THEN LET q == RdFlags(p)
            IN IF q.err = NoError /\ q.flags # 0 THEN RdVout(RdVin(q)) ELSE q
       ELSE RdVout(p)

\* mutant: bit 0 is not cleared once the witness stacks are read
RdWitnessSectionKeepsBit(p, fAllowWitness) ==
  IF p.err = NoError /\ p.flags % 2 = 1 /\ fAllowWitness
  THEN RdWitnesses(p, 1)
  ELSE p

\* lines 261-267: the witness flag
RdWitnessSection(p, fAllowWitness) ==
  IF p.err = NoError /\ p.flags % 2 = 1 /\ fAllowWitness
  THEN RdWitnesses([p EXCEPT !.flags = p.flags - 1], 1)
  ELSE p

\* mutant: unknown flag bits are let through
CheckFlagsIgnoresUnknown(p) == p

\* lines 268-271: unknown flag in the serialization
CheckFlags(p) ==
  IF p.err = NoError /\ p.flags # 0
  THEN [p EXCEPT !.err = UnknownOptionalData, !.trace = Append(@, "throw")]
  ELSE p

\* mutant: the flags are checked once locktime is read
UnserializeTransactionLateCheck(tx, s, fAllowWitness) ==
  CheckFlags(RdLockTime(RdWitnessSection(
      RdBody(RdVin(ClearVectors(RdVersion(ParseStart(tx, s)))), fAllowWitness),
      fAllowWitness)))

\* mutant: a witness flag with no witness data behind it is refused
UnserializeTransactionStrict(tx, s, fAllowWitness) ==
  LET p == RdWitnessSection(
             RdBody(RdVin(ClearVectors(RdVersion(ParseStart(tx, s)))), fAllowWitness),
             fAllowWitness)
  IN IF p.err = NoError /\ p.flagsRead # -1 /\ p.flagsRead % 2 = 1 /\ ~HasWitness(p.tx)
     THEN [p EXCEPT !.err = "Superfluous witness record", !.trace = Append(@, "throw")]
     ELSE RdLockTime(CheckFlags(p))

\* UnserializeTransaction(tx, s): the final parse state; .tx is the object as
\* the call leaves it, also when it throws
UnserializeTransaction(tx, s, fAllowWitness) ==
  RdLockTime(CheckFlags(RdWitnessSection(
      RdBody(RdVin(ClearVectors(RdVersion(ParseStart(tx, s)))), fAllowWitness),
      fAllowWitness)))

(* ------------------------ CTransaction -------------------------------- *)

\* The 256-bit digest; collisions are assumed impossible, so the digest of a
\* byte string stands for the byte string.
Hash(bytes) == [sha256d |-> bytes]

\* CTransaction::ComputeHash / CMutableTransaction::GetHash: the digest of the
\* witness-suppressed encoding
ComputeHash(tx) == Hash(SerializeTransaction(tx, FALSE))

\* CTransaction(const CMutableTransaction&) and CTransaction(CMutableTransaction&&)
CTransaction(m) ==
  [vin |-> m.vin, vout |-> m.vout, nVersion |-> m.nVersion, nLockTime |-> m.nLockTime,
   hash |-> ComputeHash(m)]

GetHash(tx) == tx.hash

\* the digest of the witness-inclusive encoding, computed on demand
GetWitnessHash(tx) == Hash(SerializeTransaction(tx, TRUE))

IsNull(tx) == tx.vin = <<>> /\ tx.vout = <<>>

\* mutant: only the first input is looked at
IsCoinBaseFirstInput(tx) == Len(tx.vin) >= 1 /\ OutPointIsNull(tx.vin[1].prevout)

IsCoinBase(tx) == Len(tx.vin) = 1 /\ OutPointIsNull(tx.vin[1].prevout)

\* mutant: equality by the fields, witness stacks included
TxEqByFields(a, b) == Fields(a) = Fields(b)

\* operator==(const CTransaction&, const CTransaction&)
TxEq(a, b) == a.hash = b.hash

\* operator!=(const CTransaction&, const CTransaction&)
TxNe(a, b) == a.hash # b.hash

(* ------------------------ the last operation -------------------------- *)

\* what the latest operation was and how it ended (before: the object an
\* in-place Unserialize was called on, as it was when the call started)
Did(op) ==
  [op |-> op, w |-> FALSE, from |-> "", fromW |-> FALSE, err |-> NoError,
   trace |-> <<>>, tx |-> CMutableTransactionDefault, flagsRead |-> -1, used |-> 0,
   before |-> CMutableTransactionDefault]

(* ------------------------ input domains ------------------------------- *)

RECURSIVE SeqsUpTo(_, _)
SeqsUpTo(S, n) ==
  IF n = 0 THEN {<<>>}
  ELSE LET shorter == SeqsUpTo(S, n - 1)
       IN shorter \cup {Append(q, e) : q \in {r \in shorter : Len(r) = n - 1}, e \in S}

\* one item 0xAB, or no witness
Stacks == {<<>>, << <<171>> >>}

\* the null outpoint, and outpoints that miss it by the hash, by the index, by both
PrevOuts ==
  {COutPointNull, COutPoint(Uint256(1), NULL_N), COutPoint(Uint256(0), 0),
   COutPoint(Uint256(1), 0)}

WithWitness(in, st) == [in EXCEPT !.scriptWitness = st]

TxIns == {WithWitness(CTxIn(p, <<>>, SEQUENCE_FINAL), st) : p \in PrevOuts, st \in Stacks}

\* 50 * COIN = 5,000,000,000 = 0x1_2A05F200 paying to script 0x51, and a zero
\* output with an empty script
TxOuts == {CTxOut([lo |-> 705032704, hi |-> 1], <<81>>), CTxOut([lo |-> 0, hi |-> 0], <<>>)}

\* (nVersion, nLockTime)
Headers == {<<CURRENT_VERSION, 0>>, <<1, 500000000>>}

TxSet ==
  {CMutableTransaction(vi, vo, h[1], h[2]) :
     vi \in SeqsUpTo(TxIns, MaxVin), vo \in SeqsUpTo(TxOuts, MaxVout), h \in Headers}

\* values a stream may carry where the flags byte is read
FlagBytes == {0, 1, 2, 3}

RECURSIVE SerStacks(_)
SerStacks(v) ==
  IF v = <<>> THEN <<>> ELSE SerStack(Head(v).scriptWitness) \o SerStacks(Tail(v))

\* A stream in the extended layout around the fields of tx, with fl where the
\* flags byte goes and the witness stacks present when bit 0 of fl says so.
ExtendedEncoding(tx, fl) ==
  WriteLE32(tx.nVersion) \o SerVin(<<>>) \o <<fl>> \o SerVin(tx.vin) \o SerVout(tx.vout)
    \o (IF fl % 2 = 1 THEN SerStacks(tx.vin) ELSE <<>>) \o WriteLE32(tx.nLockTime)

(* ------------------------ codec specification ------------------------- *)

InitCodec ==
  /\ mtx \in TxSet
  /\ txs = <<>>
  /\ ss = <<>>
  /\ out = Did("init")

\* mtx.Serialize(s) on an empty stream, witness serialization allowed or not
Serialize(fAllowWitness) ==
  /\ out.op = "init"
  /\ ss' = SerializeTransaction(mtx, fAllowWitness)
  /\ out' = [Did("Serialize") EXCEPT !.w = fAllowWitness,
               !.trace = Labels(SerializeTransactionWrites(mtx, fAllowWitness))]
  /\ UNCHANGED <<mtx, txs>>

\* a peer's bytes arrive on the stream
Receive(fl) ==
  /\ out.op = "init"
  /\ ss' = ExtendedEncoding(mtx, fl)
  /\ out' = Did("Receive")
  /\ UNCHANGED <<mtx, txs>>

\* CMutableTransaction(deserialize, s): Unserialize into a fresh object
Unserialize(fAllowWitness) ==
  /\ out.op \in {"Serialize", "Receive"}
  /\ LET p == UnserializeTransaction(CMutableTransactionDefault, ss, fAllowWitness)
     IN out' = [Did("Unserialize") EXCEPT !.w = fAllowWitness, !.from = out.op,
                  !.fromW = out.w, !.err = p.err, !.trace = p.trace, !.tx = p.tx,
                  !.flagsRead = p.flagsRead, !.used = Len(ss) - Len(p.s)]
  /\ UNCHANGED <<mtx, txs, ss>>

\* CTransaction(mtx)
Freeze ==
  /\ out.op \in {"init", "SetWitness"}
  /\ txs' = Append(txs, CTransaction(mtx))
  /\ out' = Did("CTransaction")
  /\ UNCHANGED <<mtx, ss>>

\* mtx.vin[i].scriptWitness.stack = st, after a first transaction was frozen
SetWitness(i, st) ==
  /\ out.op \in {"CTransaction", "SetWitness"}
  /\ Len(txs) = 1
  /\ mtx.vin[i].scriptWitness # st
  /\ mtx' = [mtx EXCEPT !.vin[i].scriptWitness = st]
  /\ out' = Did("SetWitness")
  /\ UNCHANGED <<txs, ss>>

NextCodec ==
  \/ \E w \in BOOLEAN : Serialize(w)
  \/ \E fl \in FlagBytes : Receive(fl)
  \/ \E w \in BOOLEAN : Unserialize(w)
  \/ Freeze
  \/ \E i \in 1..Len(mtx.vin), st \in Stacks : SetWitness(i, st)

SpecCodec == InitCodec /\ [][NextCodec]_vars

(* ------------------------ properties of the codec --------------------- *)

\* the same transaction with every witness stack emptied
StripWitness(tx) == [tx EXCEPT !.vin = [i \in 1..Len(tx.vin) |-> WithWitness(tx.vin[i], <<>>)]]

\* the basic (pre-extension) layout: nVersion, vin, vout, nLockTime
LegacyFormat(tx) ==
  WriteLE32(tx.nVersion) \o SerVin(tx.vin) \o SerVout(tx.vout) \o WriteLE32(tx.nLockTime)

LegacyLabels == <<"nVersion", "vin", "vout", "nLockTime">>

Occurrences(trace, label) == Cardinality({i \in 1..Len(trace) : trace[i] = label})

RoundTripped == out.op = "Unserialize" /\ out.from = "Serialize" /\ out.w = out.fromW

\* C1 as stated: serializing and then unserializing under the same mode gives
\* back the transaction field for field, for every transaction and both modes.
C1_RoundTripEveryTransaction ==
  RoundTripped => (out.err = NoError /\ out.tx = mtx)

\* C1 amended: under witness mode the round trip gives back the transaction
\* field for field when it has at least one input or no outputs; under legacy
\* mode it gives back, for every transaction, the transaction with every
\* witness stack emptied (so the original exactly when it carries no witness).
\* Either way the whole stream is consumed.
C1_RoundTrip ==
  RoundTripped =>
    IF out.w
    THEN (mtx.vin # <<>> \/ mtx.vout = <<>>)
           => (out.err = NoError /\ out.tx = mtx /\ out.used = Len(ss))
    ELSE /\ out.err = NoError
         /\ out.tx = StripWitness(mtx)
         /\ out.used = Len(ss)
         /\ (out.tx = mtx <=> ~HasWitness(mtx))

C1_Witness ==
  /\ RoundTripped /\ out.w
  /\ Len(mtx.vin) = 2 /\ mtx.vout # <<>>
  /\ mtx.vin[1].scriptWitness = <<>> /\ mtx.vin[2].scriptWitness # <<>>
  /\ out.tx = mtx

\* C3: with no non-empty witness stack, the witness-allowed serialization is
\* byte for byte the witness-disallowed one and has no dummy / flags pair; with
\* witness serialization disallowed the output is the legacy layout whatever
\* the witness stacks hold.
C3_NoWitnessCompaction ==
  out.op = "Serialize" =>
    /\ (out.w /\ \A i \in 1..Len(mtx.vin) : mtx.vin[i].scriptWitness = <<>>)
         => /\ ss = SerializeTransaction(mtx, FALSE)
            /\ ss = LegacyFormat(mtx)
            /\ out.trace = LegacyLabels
    /\ ~out.w => (ss = LegacyFormat(mtx) /\ out.trace = LegacyLabels)

C3_Witness ==
  /\ out.op = "Serialize" /\ out.w
  /\ Len(mtx.vin) = 2 /\ \A i \in 1..2 : mtx.vin[i].scriptWitness = <<>>
  /\ ss = LegacyFormat(mtx)

\* version 2, one input with an empty script, one output with a 1-byte script,
\* locktime 0, and no witness or a single 1-byte witness item
ScenarioShape(tx) ==
  /\ tx.nVersion = 2 /\ tx.nLockTime = 0
  /\ Len(tx.vin) = 1 /\ tx.vin[1].scriptSig = <<>>
  /\ Len(tx.vout) = 1 /\ Len(tx.vout[1].scriptPubKey) = 1
  /\ \/ tx.vin[1].scriptWitness = <<>>
     \/ Len(tx.vin[1].scriptWitness) = 1 /\ Len(tx.vin[1].scriptWitness[1]) = 1

\* the write order and the bytes of the extended layout
ExtendedWrites ==
  (out.w /\ HasWitness(mtx))
    => /\ out.trace = <<"nVersion", "vinDummy", "flags", "vin", "vout">>
                        \o [i \in 1..Len(mtx.vin) |-> "scriptWitness"]
                        \o <<"nLockTime">>
       /\ ss = WriteLE32(mtx.nVersion) \o <<0>> \o <<1>> \o SerVin(mtx.vin)
                 \o SerVout(mtx.vout) \o SerStacks(mtx.vin) \o WriteLE32(mtx.nLockTime)

\* C7 as stated: with witness serialization allowed and some non-empty witness
\* stack the writes are, in order, version, input count 0, flags 0x01, the
\* inputs, the outputs, one witness stack per input, locktime; the scenario
\* transaction takes 61 bytes in legacy mode and 67 bytes in witness mode with
\* its single 1-byte witness item.
C7_ExtendedLayout67 ==
  out.op = "Serialize" =>
    /\ ExtendedWrites
    /\ (ScenarioShape(mtx) /\ ~out.w) => Len(ss) = 61
    /\ (ScenarioShape(mtx) /\ out.w /\ HasWitness(mtx)) => Len(ss) = 67

\* C7 amended: the same write order; the scenario transaction takes 61 bytes
\* in legacy mode and 66 bytes in witness mode with its single 1-byte witness
\* item (4 + 1 + 1 + 42 + 11 + 3 + 4).
C7_ExtendedLayout ==
  out.op = "Serialize" =>
    /\ ExtendedWrites
    /\ (ScenarioShape(mtx) /\ ~out.w) => Len(ss) = 61
    /\ (ScenarioShape(mtx) /\ out.w /\ HasWitness(mtx)) => Len(ss) = 66

C7_Witness ==
  /\ out.op = "Serialize" /\ out.w
  /\ ScenarioShape(mtx) /\ HasWitness(mtx)
  /\ mtx.vin[1].prevout = COutPoint(Uint256(1), 0)
  /\ Take(ss, 7) = <<2, 0, 0, 0, 0, 1, 1>>
  /\ Len(ss) = 66

\* the two transactions have the same fields apart from the witness stacks
SameExceptWitness(a, b) == StripWitness(Fields(a)) = StripWitness(Fields(b))

\* C2: transactions identical except for their witness stacks have the same
\* GetHash() and different GetWitnessHash(); a transaction with no witness data
\* has GetWitnessHash() equal to GetHash().
C2_WitnessExclusion ==
  /\ \A i, j \in 1..Len(txs) :
       (SameExceptWitness(txs[i], txs[j]) /\ Fields(txs[i]) # Fields(txs[j]))
         => /\ GetHash(txs[i]) = GetHash(txs[j])
            /\ GetWitnessHash(txs[i]) # GetWitnessHash(txs[j])
  /\ \A i \in 1..Len(txs) :
       ~HasWitness(txs[i]) => GetWitnessHash(txs[i]) = GetHash(txs[i])

C2_Witness ==
  /\ Len(txs) = 2
  /\ Len(txs[1].vin) = 2
  /\ HasWitness(txs[1]) /\ HasWitness(txs[2])
  /\ txs[1].vin[1].scriptWitness # txs[2].vin[1].scriptWitness
  /\ txs[1].vin[2].scriptWitness # txs[2].vin[2].scriptWitness
  /\ GetHash(txs[1]) = GetHash(txs[2])

\* C5: the parse ends with "Unknown transaction optional data" exactly when a
\* flags byte was read and has a bit other than bit 0 set (the stream holding
\* the bytes of the reads before the check: a stream that ends earlier fails
\* with the stream's own error); a flags byte is read exactly after an empty
\* first input list under witness parsing; the failure comes after the witness
\* stacks selected by bit 0 and before locktime, and never with witness parsing
\* disallowed.
C5_UnknownOptionalData ==
  out.op = "Unserialize" =>
    /\ out.flagsRead # -1 => (out.w /\ Len(ss) >= 5 /\ ss[5] = 0)
    /\ (out.w /\ Len(ss) >= 6 /\ ss[5] = 0) => out.flagsRead = ss[6]
    /\ out.err # EndOfData
         => (out.err = UnknownOptionalData <=> (out.flagsRead # -1 /\ out.flagsRead \div 2 # 0))
    /\ out.err = UnknownOptionalData
         => /\ out.trace[Len(out.trace)] = "throw"
            /\ Occurrences(out.trace, "nLockTime") = 0
            /\ Occurrences(out.trace, "scriptWitness")
                 = (IF out.flagsRead % 2 = 1 THEN Len(out.tx.vin) ELSE 0)
    /\ ~out.w => out.err # UnknownOptionalData

C5_Witness ==
  /\ out.op = "Unserialize" /\ out.err = UnknownOptionalData
  /\ out.flagsRead = 3
  /\ Len(out.tx.vin) = 2 /\ HasWitness(out.tx)
  /\ Occurrences(out.trace, "scriptWitness") = 2

\* C8: IsCoinBase() is true exactly for a single input whose outpoint has the
\* all-zero hash and the index 0xFFFFFFFF.
C8_IsCoinBase ==
  \A k \in 1..Len(txs) :
    LET tx == txs[k]
    IN /\ IsCoinBase(tx)
            <=> /\ Len(tx.vin) = 1
                /\ SerOutPoint(tx.vin[1].prevout)
                     = [i \in 1..36 |-> IF i <= 32 THEN 0 ELSE 255]
       /\ Len(tx.vin) # 1 => ~IsCoinBase(tx)

C8_Witness ==
  /\ Len(txs) = 1
  /\ IsCoinBase(txs[1])
  /\ txs[1].vout # <<>>

\* C9: under witness parsing, after an empty input list and a flags byte 0 no
\* output list is read: the next read is the 4-byte locktime and the
\* transaction has no inputs and no outputs, whatever follows; with witness
\* parsing disallowed the empty input list is followed by the output-list read
\* and no flags byte is read.
C9_DegenerateDecode ==
  out.op = "Unserialize" =>
    /\ (out.w /\ out.flagsRead = 0)
         => /\ out.trace = <<"nVersion", "vin", "flags", "nLockTime">>
            /\ out.err = NoError
            /\ out.used = 10
            /\ out.tx.vin = <<>> /\ out.tx.vout = <<>>
            /\ IsNull(CTransaction(out.tx))
            /\ out.tx.nLockTime = ReadLE32(SubSeq(ss, 7, 10)).val
    /\ (~out.w /\ Len(ss) >= 5 /\ ss[5] = 0)
         => /\ out.flagsRead = -1
            /\ Take(out.trace, 3) = <<"nVersion", "vin", "vout">>

C9_Witness ==
  /\ out.op = "Unserialize" /\ out.w /\ out.flagsRead = 0
  /\ mtx.vin # <<>> /\ mtx.vout # <<>>
  /\ out.used < Len(ss)
  /\ IsNull(CTransaction(out.tx))

\* an extended encoding with flags 0x01 whose witness stacks are all empty
SuperfluousWitnessRecord ==
  /\ out.op = "Unserialize" /\ out.from = "Receive" /\ out.w
  /\ ss = ExtendedEncoding(mtx, 1)
  /\ ~HasWitness(mtx)

\* what holds of every accepted superfluous witness record: no error, the
\* decoded transaction is the one encoded, its witness-allowed serialization is
\* the shorter legacy form and is not the accepted bytes
ReencodesShorter ==
  /\ out.err = NoError
  /\ out.tx = mtx
  /\ SerializeTransaction(out.tx, TRUE) = LegacyFormat(out.tx)
  /\ SerializeTransaction(out.tx, TRUE) # ss
  /\ Len(SerializeTransaction(out.tx, TRUE)) = Len(ss) - 2 - Len(mtx.vin)

\* decoding the re-encoded bytes gives the same transaction and GetHash()
ReencodedDecodesSame ==
  LET d == UnserializeTransaction(CMutableTransactionDefault,
                                  SerializeTransaction(out.tx, TRUE), TRUE)
  IN /\ d.err = NoError
     /\ d.tx = out.tx
     /\ GetHash(CTransaction(d.tx)) = GetHash(CTransaction(out.tx))

\* C10 as stated: a superfluous witness record is accepted, re-encodes to the
\* shorter legacy form, and both byte strings decode to the same transaction
\* with the same GetHash().
C10_NonCanonicalEveryTransaction ==
  SuperfluousWitnessRecord => (ReencodesShorter /\ ReencodedDecodesSame)

\* C10 amended: the same, the two byte strings decoding to the same
\* transaction when it has at least one input or no outputs.
C10_NonCanonical ==
  SuperfluousWitnessRecord
    => /\ ReencodesShorter
       /\ (mtx.vin # <<>> \/ mtx.vout = <<>>) => ReencodedDecodesSame

C10_Witness ==
  /\ SuperfluousWitnessRecord
  /\ Len(mtx.vin) = 2 /\ mtx.vout # <<>>
  /\ ReencodesShorter /\ ReencodedDecodesSame

(* ------------------------ in-place and constructing decode ------------ *)

\* the builder's inputs: one outpoint, with and without a witness item
EditTxIns == {WithWitness(CTxIn(COutPoint(Uint256(1), 0), <<>>, SEQUENCE_FINAL), st) : st \in Stacks}

EditTxOuts == {CTxOut([lo |-> 705032704, hi |-> 1], <<81>>)}

EditTxSet ==
  {CMutableTransaction(vi, vo, h[1], h[2]) :
     vi \in SeqsUpTo(EditTxIns, MaxEditVin), vo \in SeqsUpTo(EditTxOuts, MaxEditVout),
     h \in Headers}

\* the streams a caller may hand to a decode: serializations under either mode
\* and extended layouts with any flags byte
Streams ==
  {SerializeTransaction(src, w) : src \in EditTxSet, w \in BOOLEAN}
    \cup {ExtendedEncoding(src, fl) : src \in EditTxSet, fl \in FlagBytes}

InitUnserialize ==
  /\ mtx \in EditTxSet
  /\ txs = <<>>
  /\ ss = <<>>
  /\ out = Did("init")

\* mtx.Unserialize(s) on an existing builder
UnserializeInPlace(s, fAllowWitness) ==
  /\ out.op = "init"
  /\ LET p == UnserializeTransaction(mtx, s, fAllowWitness)
     IN /\ mtx' = p.tx
        /\ out' = [Did("Unserialize") EXCEPT !.w = fAllowWitness, !.err = p.err,
                     !.flagsRead = p.flagsRead, !.before = mtx]
  /\ ss' = s
  /\ UNCHANGED txs

\* CTransaction(deserialize, s) : CTransaction(CMutableTransaction(deserialize, s));
\* an exception leaves no object behind
DeserializeCTransaction(s, fAllowWitness) ==
  /\ out.op = "init"
  /\ LET p == UnserializeTransaction(CMutableTransactionDefault, s, fAllowWitness)
     IN /\ txs' = IF p.err = NoError THEN Append(txs, CTransaction(p.tx)) ELSE txs
        /\ out' = [Did("CTransaction(deserialize)") EXCEPT !.w = fAllowWitness,
                     !.err = p.err, !.flagsRead = p.flagsRead, !.before = mtx]
  /\ ss' = s
  /\ UNCHANGED mtx

NextUnserialize ==
  \/ \E s \in Streams, w \in BOOLEAN : UnserializeInPlace(s, w)
  \/ \E s \in Streams, w \in BOOLEAN : DeserializeCTransaction(s, w)

SpecUnserialize == InitUnserialize /\ [][NextUnserialize]_vars

\* C6 as stated: when the parse fails with the malformed-encoding error, no
\* Transaction is constructed and the MutableTransaction Unserialize was called
\* on is as it was before the call.
C6_AllOrNothing ==
  out.err = UnknownOptionalData => (txs = <<>> /\ mtx = out.before)

\* C6 amended: when the parse fails with the malformed-encoding error, no
\* Transaction is constructed by the deserializing constructor (and the
\* builder beside it is untouched); a MutableTransaction Unserialize was called
\* on keeps its nLockTime only: its version, inputs, outputs and witness stacks
\* are the ones read from the stream before the failure.
C6_FailedParse ==
  out.err = UnknownOptionalData =>
    /\ txs = <<>>
    /\ out.op = "CTransaction(deserialize)" => mtx = out.before
    /\ out.op = "Unserialize"
         => /\ mtx.nLockTime = out.before.nLockTime
            /\ mtx.nVersion = ReadLE32(ss).val
            /\ \E src \in EditTxSet :
                 /\ ss = ExtendedEncoding(src, out.flagsRead)
                 /\ mtx.vout = src.vout
                 /\ mtx.vin = (IF out.flagsRead % 2 = 1 THEN src.vin
                               ELSE StripWitness(src).vin)

C6_Witness ==
  /\ out.op = "Unserialize" /\ out.err = UnknownOptionalData
  /\ out.before.vin = <<>> /\ out.before.vout = <<>>
  /\ mtx.vin # <<>> /\ HasWitness(mtx) /\ mtx.vout # <<>>
  /\ mtx.nVersion # out.before.nVersion
  /\ mtx.nLockTime # ReadLE32(Drop(ss, Len(ss) - 4)).val

(* ------------------------ lifecycle ----------------------------------- *)

Init ==
  /\ mtx = CMutableTransactionDefault
  /\ txs = <<>>
  /\ ss = <<>>
  /\ out = Did("init")

\* mtx.vin.push_back(in)
AddInput(in) ==
  /\ Len(mtx.vin) < MaxEditVin
  /\ mtx' = [mtx EXCEPT !.vin = Append(@, in)]
  /\ UNCHANGED <<txs, ss, out>>

\* mtx.vout.push_back(o)
AddOutput(o) ==
  /\ Len(mtx.vout) < MaxEditVout
  /\ mtx' = [mtx EXCEPT !.vout = Append(@, o)]
  /\ UNCHANGED <<txs, ss, out>>

\* mtx.vin[i].scriptWitness.stack = st
AssignWitness(i, st) ==
  /\ mtx.vin[i].scriptWitness # st
  /\ mtx' = [mtx EXCEPT !.vin[i].scriptWitness = st]
  /\ UNCHANGED <<txs, ss, out>>

\* the builder is dropped and a new one started
Discard ==
  /\ mtx # CMutableTransactionDefault
  /\ mtx' = CMutableTransactionDefault
  /\ UNCHANGED <<txs, ss, out>>

\* CTransaction(const CMutableTransaction& tx): the builder is copied
FreezeCopy ==
  /\ Len(txs) < MaxTxs
  /\ txs' = Append(txs, CTransaction(mtx))
  /\ UNCHANGED <<mtx, ss, out>>

\* CTransaction(CMutableTransaction&& tx): the builder's vectors are moved out
\* (a moved-from std::vector is empty), its scalars copied
FreezeMove ==
  /\ Len(txs) < MaxTxs
  /\ txs' = Append(txs, CTransaction(mtx))
  /\ mtx' = [mtx EXCEPT !.vin = <<>>, !.vout = <<>>]
  /\ UNCHANGED <<ss, out>>

\* CTransaction(deserialize, s) from a stream a peer or the disk supplies
Deserialize(s, fAllowWitness) ==
  /\ Len(txs) < MaxTxs
  /\ LET p == UnserializeTransaction(CMutableTransactionDefault, s, fAllowWitness)
     IN /\ p.err = NoError
        /\ txs' = Append(txs, CTransaction(p.tx))
  /\ UNCHANGED <<mtx, ss, out>>

\* the streams of the lifecycle: what peers and the disk hold, the witness
\* serializations of transactions with the default header that spend and pay
BuilderStreams ==
  {SerializeTransaction(src, TRUE) :
     src \in {e \in EditTxSet : /\ e.nVersion = CURRENT_VERSION /\ e.nLockTime = 0
                                /\ e.vin # <<>> /\ e.vout # <<>>}}

Next ==
  \/ \E in \in EditTxIns : AddInput(in)
  \/ \E o \in EditTxOuts : AddOutput(o)
  \/ \E i \in 1..Len(mtx.vin), st \in Stacks : AssignWitness(i, st)
  \/ Discard
  \/ FreezeCopy
  \/ FreezeMove
  \/ \E s \in BuilderStreams, w \in BOOLEAN : Deserialize(s, w)

Spec == Init /\ [][Next]_vars

\* the memoized hash is the digest of the legacy encoding of the fields
HashMatchesFields ==
  \A i \in 1..Len(txs) : GetHash(txs[i]) = Hash(LegacyFormat(txs[i]))

\* == and != are decided by the memoized hashes
EqualityIsHashEquality ==
  \A i, j \in 1..Len(txs) :
    /\ TxEq(txs[i], txs[j]) <=> GetHash(txs[i]) = GetHash(txs[j])
    /\ TxNe(txs[i], txs[j]) <=> GetHash(txs[i]) # GetHash(txs[j])

\* an existing Transaction stays as it is, whatever is done next
Frozen ==
  /\ Len(txs') >= Len(txs)
  /\ \A i \in 1..Len(txs) : txs'[i] = txs[i]

====
